---- MODULE Spec2Model ----
(***************************************************************************)
(* A model of the unimock call-expectation engine: the builder chain that  *)
(* produces clauses (src/src/build.rs), the assembler that merges clauses  *)
(* into the registry (src/src/mock_impl.rs), and the Unimock handle with   *)
(* its shared state, evaluation entry points, failure mailbox and          *)
(* verification on drop (src/src/lib.rs).                                  *)
(*                                                                         *)
(* The modules counter, error and mock are not part of the sources at      *)
(* hand; the operators that stand for them follow the written              *)
(* specification and are marked "spec-modelled" below.                     *)
(***************************************************************************)
EXTENDS Integers, Sequences, FiniteSets, TLC

\* ------------------------------------------------------------------ bounds
MaxCount == 2       \* largest count handed to n_times / at_least_times
MaxClauses == 3     \* clauses handed to one MockAssembler
MaxClones == 2      \* clones made of one construction
MaxCalls == 2       \* calls made on the handles of one construction

\* --------------------------------------------------------------- universes
Fns == {"f", "g"}            \* the MockFn identities
Inputs == {1, 2}             \* abstract call inputs
Threads == {"main", "w1"}    \* the constructing thread and a worker
None == <<>>                 \* Option::None
Some(x) == <<x>>             \* Option::Some(x)
Unwrap(opt) == opt[1]

\* ---------------------------------------------------------------- helpers
Range(s) == {s[i] : i \in DOMAIN s}

RECURSIVE SumSeq(_)
SumSeq(s) == IF s = <<>> THEN 0 ELSE Head(s) + SumSeq(Tail(s))

RECURSIVE FlattenSeq(_)
FlattenSeq(ss) == IF ss = <<>> THEN <<>> ELSE Head(ss) \o FlattenSeq(Tail(ss))

\* ------------------------------------------------- counter (spec-modelled)
\* CallCounter {minimum, exactness, actual}.
CallCounterNew(minimum, exactness) ==
    [minimum |-> minimum, exactness |-> exactness, actual |-> 0]

\* Exactness merge: the counter takes the qualifier it is given.  then()
\* relies on it (build.rs:297-305): after an exact quantifier it "sets the
\* exactness to AtLeastPlusOne", so that the response it opens is
\* non-exactly quantified unless a later quantifier says otherwise.
MergeExactness(old, new) == new

\* add_to_minimum(n, exactness): additive, the floor only ever rises.
AddToMinimum(counter, n, exactness) ==
    [counter EXCEPT !.minimum = @ + n,
                    !.exactness = MergeExactness(@, exactness)]

\* get_expected_exact_count(): a concrete count only under Exact.
GetExpectedExactCount(counter) ==
    IF counter.exactness = "Exact" THEN Some(counter.minimum) ELSE None

\* fetch_add(): atomic increment returning the pre-increment ordinal.
FetchAdd(counter) ==
    [counter |-> [counter EXCEPT !.actual = @ + 1], ordinal |-> counter.actual]

\* ------------------------------------------------------ errors and messages
MockError(kind, name, pat) == [kind |-> kind, name |-> name, pat |-> pat]

\* MockError::to_string (spec-modelled): the text names the function; the
\* pattern index is printed only for the errors that carry one.
KindText(kind) ==
    CASE kind = "NoMatchingPattern"  -> "no matching call patterns"
      [] kind = "Unmockable"         -> "no mock implementation found"
      [] kind = "SequenceOutOfRange" -> "ordered call out of range"
      [] kind = "CannotUnmock"       -> "cannot be unmocked"
      [] kind = "ExplicitPanic"      -> "explicit panic"
      [] kind = "MockNeverCalled"    -> "mock was never called"
      [] kind = "NeverApplied"       -> "pattern was never called"
      [] kind = "Unfulfilled"        -> "expected more calls"
      [] OTHER                       -> "error"

\* usize as decimal text
IntText(i) ==
    IF i < 10 THEN <<"0", "1", "2", "3", "4", "5", "6", "7", "8", "9">>[i + 1]
    ELSE "many"

ErrorToString(error) ==
    IF error.pat = None
    THEN <<error.name, ": ", KindText(error.kind)>>
    ELSE <<error.name, ": ", KindText(error.kind), "#", IntText(Unwrap(error.pat))>>

\* Vec<String>::join("/n") as written in Drop (lib.rs:281)
RECURSIVE JoinStrings(_)
JoinStrings(strings) ==
    IF strings = <<>> THEN <<>>
    ELSE IF Len(strings) = 1 THEN Head(strings)
    ELSE Head(strings) \o <<"/n">> \o JoinStrings(Tail(strings))

\* AssembleError (mock_impl.rs:14-23)
IncompatiblePatternMatchMode(name, old_mode, new_mode) ==
    [kind |-> "IncompatiblePatternMatchMode", name |-> name,
     old_mode |-> old_mode, new_mode |-> new_mode]

MockHasNoExactExpectation(name) ==
    [kind |-> "MockHasNoExactExpectation", name |-> name]

\* ------------------------------------------------------- builder (build.rs)
\* A call pattern: CallPatternNonGeneric {call_index_range, call_counter},
\* the input matcher (the set of inputs it accepts) and the responders.
DefaultRange == [start |-> 0, end |-> 0]

\* The mutant of Each::call starts the counter as CallCounter::new(0, Exact).
NewCallPatternExact(matcher) ==
    [call_index_range |-> DefaultRange,
     call_counter |-> CallCounterNew(0, "Exact"),
     input_matcher |-> matcher,
     responders |-> <<>>]

\* Each::call / CallPattern::from_input_matcher
NewCallPattern(matcher) ==
    [call_index_range |-> DefaultRange,
     call_counter |-> CallCounterNew(0, "AtLeast"),
     input_matcher |-> matcher,
     responders |-> <<>>]

\* Match {pattern, response_index}: the stage of the chain that awaits a
\* responder; the function name travels with the chain.
NewMatch(name, matcher) ==
    [name |-> name, pattern |-> NewCallPattern(matcher), response_index |-> 0]

\* Match::responder: push CallOrderResponder {response_index, responder}
MatchResponder(m, responder) ==
    [m EXCEPT !.pattern.responders =
        Append(@, [response_index |-> m.response_index, responder |-> responder])]

\* The mutant of into_exact leaves the response index where it was.
IntoExactKeepsIndex(q, times) == q

\* QuantifyResponse::into_exact
IntoExact(q, times) == [q EXCEPT !.response_index = @ + times]

\* QuantifyResponse::once
Once(q) ==
    IntoExact([q EXCEPT !.pattern.call_counter = AddToMinimum(@, 1, "Exact")], 1)

\* The mutant of n_times quantifies with AtLeast where the code says Exact.
NTimesAtLeast(q, times) ==
    IntoExact([q EXCEPT !.pattern.call_counter = AddToMinimum(@, times, "AtLeast")], times)

\* QuantifyResponse::n_times
NTimes(q, times) ==
    IntoExact([q EXCEPT !.pattern.call_counter = AddToMinimum(@, times, "Exact")], times)

\* The mutant of at_least_times sets the minimum to its count where the
\* code adds the count to it.
AtLeastTimesSetsMinimum(q, times) ==
    [q EXCEPT !.pattern.call_counter =
                  [@ EXCEPT !.minimum = times, !.exactness = "AtLeast"],
              !.response_index = @ + times]

\* QuantifyResponse::at_least_times
AtLeastTimes(q, times) ==
    [q EXCEPT !.pattern.call_counter = AddToMinimum(@, times, "AtLeast"),
              !.response_index = @ + times]

\* QuantifiedResponse::then
Then(q) ==
    [q EXCEPT !.pattern.call_counter = AddToMinimum(@, 0, "AtLeastPlusOne")]

\* The mutant of DynMockImpl::new creates the entry as applied already.
DynMockImplNewApplied(name, patterns, mode) ==
    [name |-> name, patterns |-> patterns,
     pattern_match_mode |-> mode, has_applications |-> TRUE]

\* DynMockImpl::new: has_applications starts false
DynMockImplNew(name, patterns, mode) ==
    [name |-> name, patterns |-> patterns,
     pattern_match_mode |-> mode, has_applications |-> FALSE]

\* QuantifiedResponse::in_order
InOrder(q) == DynMockImplNew(q.name, <<q.pattern>>, "InOrder")

\* QuantifyResponse::in_any_order / QuantifiedResponse::in_any_order
InAnyOrder(q) == DynMockImplNew(q.name, <<q.pattern>>, "InAnyOrder")

\* Each::to_clause: the patterns of one stub, in the order of Each::call
EachToClause(name, patterns) == DynMockImplNew(name, patterns, "InAnyOrder")

\* ------------------------------------------------ assembler (mock_impl.rs)
\* MockAssembler::new
MockAssemblerNew == [impls |-> <<>>, current_call_index |-> 0]

\* The mutant of assemble_setup_call_range forgets to advance the cursor.
SetupCallRangeStuck(pattern, assembler_call_index, name) ==
    LET exact_count == GetExpectedExactCount(pattern.call_counter) IN
    IF exact_count = None
    THEN [ok |-> FALSE, error |-> Some(MockHasNoExactExpectation(name)),
          pattern |-> pattern, index |-> assembler_call_index]
    ELSE [ok |-> TRUE, error |-> None,
          pattern |-> [pattern EXCEPT !.call_index_range =
                          [start |-> assembler_call_index,
                           end |-> assembler_call_index + Unwrap(exact_count)]],
          index |-> assembler_call_index]

\* The mutant of assemble_setup_call_range takes the end of the range as
\* inclusive: the range is one longer than the count.
SetupCallRangeInclusiveEnd(pattern, assembler_call_index, name) ==
    LET exact_count == GetExpectedExactCount(pattern.call_counter) IN
    IF exact_count = None
    THEN [ok |-> FALSE, error |-> Some(MockHasNoExactExpectation(name)),
          pattern |-> pattern, index |-> assembler_call_index]
    ELSE [ok |-> TRUE, error |-> None,
          pattern |-> [pattern EXCEPT !.call_index_range =
                          [start |-> assembler_call_index,
                           end |-> assembler_call_index + Unwrap(exact_count) + 1]],
          index |-> assembler_call_index + Unwrap(exact_count)]

\* The mutant of assemble_setup_call_range takes a missing exact count as 0
\* (unwrap_or(0) in the place of ok_or(..)?).
SetupCallRangeDefaultCount(pattern, assembler_call_index, name) ==
    LET exact_count == GetExpectedExactCount(pattern.call_counter)
        count == IF exact_count = None THEN 0 ELSE Unwrap(exact_count) IN
    [ok |-> TRUE, error |-> None,
     pattern |-> [pattern EXCEPT !.call_index_range =
                     [start |-> assembler_call_index,
                      end |-> assembler_call_index + count]],
     index |-> assembler_call_index + count]

\* CallPatternNonGeneric::assemble_setup_call_range
AssembleSetupCallRange(pattern, assembler_call_index, name) ==
    LET exact_count == GetExpectedExactCount(pattern.call_counter) IN
    IF exact_count = None
    THEN [ok |-> FALSE, error |-> Some(MockHasNoExactExpectation(name)),
          pattern |-> pattern, index |-> assembler_call_index]
    ELSE [ok |-> TRUE, error |-> None,
          pattern |-> [pattern EXCEPT !.call_index_range =
                          [start |-> assembler_call_index,
                           end |-> assembler_call_index + Unwrap(exact_count)]],
          index |-> assembler_call_index + Unwrap(exact_count)]

\* The mutant of TypedMockImpl::assemble starts every clause's range at 0
\* instead of at the assembler's cursor.
TypedAssembleFromZero(patterns, mode, assembler_call_index, name) ==
    IF mode = "InOrder"
    THEN LET r == AssembleSetupCallRange(patterns[1], 0, name) IN
         [ok |-> r.ok, error |-> r.error,
          patterns |-> <<r.pattern>>, index |-> r.index]
    ELSE [ok |-> TRUE, error |-> None,
          patterns |-> patterns, index |-> assembler_call_index]

\* TypedMockImpl::assemble, the part before the merge: in InOrder mode the
\* clause has exactly one pattern (anything else panics) and that pattern
\* gets its call-index range; InAnyOrder patterns are left as they are.
TypedAssemble(patterns, mode, assembler_call_index, name) ==
    IF mode = "InOrder"
    THEN LET r == AssembleSetupCallRange(patterns[1], assembler_call_index, name) IN
         [ok |-> r.ok, error |-> r.error,
          patterns |-> <<r.pattern>>, index |-> r.index]
    ELSE [ok |-> TRUE, error |-> None,
          patterns |-> patterns, index |-> assembler_call_index]

\* The mutant of assemble_into puts the patterns of a later clause before
\* those that the entry holds.
AssembleIntoPrepends(clause, assembler) ==
    IF clause.name \in DOMAIN assembler.impls
    THEN LET entry == assembler.impls[clause.name] IN
         IF entry.pattern_match_mode # clause.pattern_match_mode
         THEN [ok |-> FALSE, assembler |-> assembler,
               error |-> Some(IncompatiblePatternMatchMode(
                            clause.name, entry.pattern_match_mode,
                            clause.pattern_match_mode))]
         ELSE LET r == TypedAssemble(clause.patterns, clause.pattern_match_mode,
                                     assembler.current_call_index, clause.name) IN
              IF ~r.ok
              THEN [ok |-> FALSE, assembler |-> assembler, error |-> r.error]
              ELSE [ok |-> TRUE, error |-> None,
                    assembler |->
                      [impls |-> [assembler.impls EXCEPT ![clause.name].patterns =
                                      r.patterns \o @],
                       current_call_index |-> r.index]]
    ELSE LET r == TypedAssemble(clause.patterns, clause.pattern_match_mode,
                                assembler.current_call_index, clause.name) IN
         IF ~r.ok
         THEN [ok |-> FALSE, assembler |-> assembler, error |-> r.error]
         ELSE [ok |-> TRUE, error |-> None,
               assembler |->
                 [impls |-> [n \in DOMAIN assembler.impls \cup {clause.name} |->
                               IF n = clause.name
                               THEN [clause EXCEPT !.patterns = r.patterns]
                               ELSE assembler.impls[n]],
                  current_call_index |-> r.index]]

\* The mutant of assemble_into registers a vacant entry before its patterns
\* are assembled, and moves the cursor of a refused clause past it.
AssembleIntoInsertsFirst(clause, assembler) ==
    IF clause.name \in DOMAIN assembler.impls
    THEN LET entry == assembler.impls[clause.name] IN
         IF entry.pattern_match_mode # clause.pattern_match_mode
         THEN [ok |-> FALSE, assembler |-> assembler,
               error |-> Some(IncompatiblePatternMatchMode(
                            clause.name, entry.pattern_match_mode,
                            clause.pattern_match_mode))]
         ELSE LET r == TypedAssemble(clause.patterns, clause.pattern_match_mode,
                                     assembler.current_call_index, clause.name) IN
              IF ~r.ok
              THEN [ok |-> FALSE, error |-> r.error,
                    assembler |-> [assembler EXCEPT !.current_call_index = @ + 1]]
              ELSE [ok |-> TRUE, error |-> None,
                    assembler |->
                      [impls |-> [assembler.impls EXCEPT ![clause.name].patterns =
                                      @ \o r.patterns],
                       current_call_index |-> r.index]]
    ELSE LET r == TypedAssemble(clause.patterns, clause.pattern_match_mode,
                                assembler.current_call_index, clause.name) IN
         [ok |-> r.ok, error |-> r.error,
          assembler |->
            [impls |-> [n \in DOMAIN assembler.impls \cup {clause.name} |->
                          IF n = clause.name
                          THEN [clause EXCEPT !.patterns = r.patterns]
                          ELSE assembler.impls[n]],
             current_call_index |-> r.index]]

\* DynMockImpl::assemble_into: Ok(()) with the updated assembler, or Err.
AssembleInto(clause, assembler) ==
    IF clause.name \in DOMAIN assembler.impls
    THEN LET entry == assembler.impls[clause.name] IN
         IF entry.pattern_match_mode # clause.pattern_match_mode
         THEN [ok |-> FALSE, assembler |-> assembler,
               error |-> Some(IncompatiblePatternMatchMode(
                            clause.name, entry.pattern_match_mode,
                            clause.pattern_match_mode))]
         ELSE LET r == TypedAssemble(clause.patterns, clause.pattern_match_mode,
                                     assembler.current_call_index, clause.name) IN
              IF ~r.ok
              THEN [ok |-> FALSE, assembler |-> assembler, error |-> r.error]
              ELSE [ok |-> TRUE, error |-> None,
                    assembler |->
                      [impls |-> [assembler.impls EXCEPT ![clause.name].patterns =
                                      @ \o r.patterns],
                       current_call_index |-> r.index]]
    ELSE LET r == TypedAssemble(clause.patterns, clause.pattern_match_mode,
                                assembler.current_call_index, clause.name) IN
         IF ~r.ok
         THEN [ok |-> FALSE, assembler |-> assembler, error |-> r.error]
         ELSE [ok |-> TRUE, error |-> None,
               assembler |->
                 [impls |-> [n \in DOMAIN assembler.impls \cup {clause.name} |->
                               IF n = clause.name
                               THEN [clause EXCEPT !.patterns = r.patterns]
                               ELSE assembler.impls[n]],
                  current_call_index |-> r.index]]

\* --------------------------------------------------- verification on drop
\* CallCounter::verify (spec-modelled): "never called" when actual = 0,
\* "unfulfilled" when 0 < actual < minimum, nothing otherwise.
CallCounterVerify(counter, name, pat_index) ==
    IF counter.actual = 0
    THEN <<MockError("NeverApplied", name, Some(pat_index))>>
    ELSE IF counter.actual < counter.minimum
    THEN <<MockError("Unfulfilled", name, Some(pat_index))>>
    ELSE <<>>

\* The mutant of TypedMockImpl::verify stops before the last pattern.
TypedVerifySkipsLast(patterns, name) ==
    FlattenSeq([i \in 1..(Len(patterns) - 1) |->
                  CallCounterVerify(patterns[i].call_counter, name, i - 1)])

\* TypedMockImpl::verify: every pattern's counter, with its 0-based index
TypedVerify(patterns, name) ==
    FlattenSeq([i \in 1..Len(patterns) |->
                  CallCounterVerify(patterns[i].call_counter, name, i - 1)])

\* The mutant of DynMockImpl::verify leaves out the has_applications check.
DynVerifyCountersOnly(dyn_impl) == TypedVerify(dyn_impl.patterns, dyn_impl.name)

\* DynMockImpl::verify
DynVerify(dyn_impl) ==
    (IF ~dyn_impl.has_applications
     THEN <<MockError("MockNeverCalled", dyn_impl.name, None)>>
     ELSE <<>>)
    \o TypedVerify(dyn_impl.patterns, dyn_impl.name)

\* The orders in which a HashMap with these keys may be iterated
IterationOrders(keys) ==
    {order \in [1..Cardinality(keys) -> keys] : Range(order) = keys}

\* ------------------------------------------ evaluation (mock, spec-modelled)
Yes(output) == [tag |-> "Yes", output |-> Some(output), inputs |-> None, error |-> None]
No(inputs) == [tag |-> "No", output |-> None, inputs |-> Some(inputs), error |-> None]
Err(error) == [tag |-> "Err", output |-> None, inputs |-> None, error |-> Some(error)]

\* An Exact quota that is used up
Exhausted(counter) ==
    counter.exactness = "Exact" /\ counter.actual >= counter.minimum

\* The mutant of the ordered-mode selection goes on to the first pattern at
\* or after the ordinal's one whose matcher accepts the input.
MatchPatternSkipsForward(dyn_impl, input, ordinal) ==
    LET ps == dyn_impl.patterns IN
    IF dyn_impl.pattern_match_mode = "InAnyOrder"
    THEN LET cands == {i \in DOMAIN ps :
                         input \in ps[i].input_matcher /\ ~Exhausted(ps[i].call_counter)} IN
         IF cands = {}
         THEN [index |-> None,
               error |-> Some(MockError("NoMatchingPattern", dyn_impl.name, None))]
         ELSE [index |-> Some(CHOOSE i \in cands : \A j \in cands : i <= j),
               error |-> None]
    ELSE LET cands == {i \in DOMAIN ps :
                         /\ ordinal < ps[i].call_index_range.end
                         /\ input \in ps[i].input_matcher} IN
         IF cands = {}
         THEN [index |-> None,
               error |-> Some(MockError("SequenceOutOfRange", dyn_impl.name, None))]
         ELSE [index |-> Some(CHOOSE i \in cands : \A j \in cands : i <= j),
               error |-> None]

\* The 1-based index of the selected pattern, or None with the error.
MatchPattern(dyn_impl, input, ordinal) ==
    LET ps == dyn_impl.patterns IN
    IF dyn_impl.pattern_match_mode = "InAnyOrder"
    THEN LET cands == {i \in DOMAIN ps :
                         input \in ps[i].input_matcher /\ ~Exhausted(ps[i].call_counter)} IN
         IF cands = {}
         THEN [index |-> None,
               error |-> Some(MockError("NoMatchingPattern", dyn_impl.name, None))]
         ELSE [index |-> Some(CHOOSE i \in cands : \A j \in cands : i <= j),
               error |-> None]
    ELSE LET cands == {i \in DOMAIN ps :
                         /\ ps[i].call_index_range.start <= ordinal
                         /\ ordinal < ps[i].call_index_range.end} IN
         IF cands = {}
         THEN [index |-> None,
               error |-> Some(MockError("SequenceOutOfRange", dyn_impl.name, None))]
         ELSE LET i == CHOOSE i \in cands : \A j \in cands : i <= j IN
              IF input \in ps[i].input_matcher
              THEN [index |-> Some(i), error |-> None]
              ELSE [index |-> None,
                    error |-> Some(MockError("NoMatchingPattern", dyn_impl.name,
                                             Some(i - 1)))]

\* The responder with the greatest response_index <= k (the later one of equals)
SelectResponder(responders, k) ==
    LET eligible == {i \in DOMAIN responders : responders[i].response_index <= k} IN
    CHOOSE i \in eligible :
        \A j \in eligible :
            \/ responders[j].response_index < responders[i].response_index
            \/ responders[j].response_index = responders[i].response_index /\ j <= i

\* The mutant of increase_call_counter reads the counter (load) where the
\* code increments it (fetch_add).
IncreaseCallCounterLoad(pattern) ==
    [counter |-> pattern.call_counter, ordinal |-> pattern.call_counter.actual]

\* The mutant of increase_call_counter counts down what is left of the
\* minimum while it counts the calls.
IncreaseCallCounterCountdown(pattern) ==
    [counter |-> [pattern.call_counter EXCEPT !.actual = @ + 1,
                                             !.minimum = IF @ > 0 THEN @ - 1 ELSE 0],
     ordinal |-> pattern.call_counter.actual]

\* CallPatternNonGeneric::increase_call_counter: the counter after the
\* fetch_add and the pre-increment ordinal it returned.
IncreaseCallCounter(pattern) == FetchAdd(pattern.call_counter)

\* The first half of mock::eval: the registry lookup and the selection of
\* the pattern.  An ordered-mode function takes the next global call ordinal
\* here.  `matched` tells whether a pattern was selected (index, 1-based);
\* otherwise `result` is what mock::eval returns.
EvalMatch(registry, name, input, fallback, ordinal) ==
    IF name \notin DOMAIN registry
    THEN [matched |-> FALSE, index |-> 0, call_ordinal |-> None,
          result |-> Some(IF fallback = "Error"
                          THEN Err(MockError("Unmockable", name, None))
                          ELSE No(input)),
          ordinal |-> ordinal]
    ELSE LET dyn_impl == registry[name]
             ordered == dyn_impl.pattern_match_mode = "InOrder"
             m == MatchPattern(dyn_impl, input, ordinal) IN
         [matched |-> m.index # None,
          index |-> IF m.index # None THEN Unwrap(m.index) ELSE 0,
          call_ordinal |-> IF ordered THEN Some(ordinal) ELSE None,
          result |-> IF m.index # None THEN None ELSE Some(Err(Unwrap(m.error))),
          ordinal |-> IF ordered THEN ordinal + 1 ELSE ordinal]

\* The second half of mock::eval, for the pattern selected: the counter is
\* incremented, the ordinal it returns picks the responder, the function is
\* marked as applied and the responder is executed.
EvalRespond(registry, name, input, i) ==
    LET pattern == registry[name].patterns[i]
        fa == IncreaseCallCounter(pattern)
        r == SelectResponder(pattern.responders, fa.ordinal)
        kind == pattern.responders[r].responder IN
    [result |-> CASE kind = "Unmock" -> No(input)
                  [] kind = "Panic" ->
                       Err(MockError("ExplicitPanic", name, Some(i - 1)))
                  [] OTHER -> Yes(<<name, i - 1, r - 1, input>>),
     impls |-> [registry EXCEPT ![name].has_applications = TRUE,
                                ![name].patterns[i].call_counter = fa.counter],
     pat_ordinal |-> fa.ordinal,
     responder |-> r]

\* mock::eval(impls.get(F), inputs, fallback_mode) run without interruption:
\* the result, the registry with the selected pattern's counter advanced,
\* and the next ordered-call ordinal.
MockEval(registry, name, input, fallback, ordinal) ==
    LET m == EvalMatch(registry, name, input, fallback, ordinal) IN
    IF ~m.matched
    THEN [result |-> Unwrap(m.result), impls |-> registry, ordinal |-> m.ordinal]
    ELSE LET e == EvalRespond(registry, name, input, m.index) IN
         [result |-> e.result, impls |-> e.impls, ordinal |-> m.ordinal]

\* ------------------------------------------------------ the handle (lib.rs)
\* The message of the panic of lock().unwrap() on a poisoned Mutex
PoisonMessage == <<"PoisonError">>

\* The mutant of prepare_panic overwrites an occupied mailbox.
PreparePanicLastWins(error, reason, poison) ==
    IF poison
    THEN [raised |-> PoisonMessage, panic_reason |-> reason]
    ELSE [raised |-> ErrorToString(error), panic_reason |-> Some(error)]

\* The mutant of prepare_panic formats the message and records nothing.
PreparePanicNoLatch(error, reason, poison) ==
    IF poison
    THEN [raised |-> PoisonMessage, panic_reason |-> reason]
    ELSE [raised |-> ErrorToString(error), panic_reason |-> reason]

\* Unimock::prepare_panic: the message that the caller panics with and the
\* mailbox afterwards.  On a poisoned lock the unwrap panics instead.
PreparePanic(error, reason, poison) ==
    IF poison
    THEN [raised |-> PoisonMessage, panic_reason |-> reason]
    ELSE [raised |-> ErrorToString(error),
          panic_reason |-> IF reason = None THEN Some(error) ELSE reason]

Returned(result, reason) ==
    [returned |-> Some(result), raised |-> None, panic_reason |-> reason,
     prepared |-> None]

Panicked(error, reason, poison) ==
    LET p == PreparePanic(error, reason, poison) IN
    [returned |-> None, raised |-> Some(p.raised), panic_reason |-> p.panic_reason,
     prepared |-> Some(error)]

\* The mutant of Unimock::eval returns whatever mock::eval returned Ok.
EvalReturnsNo(result, name, reason, poison) ==
    IF result.tag = "Err"
    THEN Panicked(Unwrap(result.error), reason, poison)
    ELSE Returned(result, reason)

\* Unimock::eval, after mock::eval has produced `result`
Eval(result, name, reason, poison) ==
    CASE result.tag = "Yes" -> Returned(result, reason)
      [] result.tag = "No" -> Panicked(MockError("CannotUnmock", name, None), reason, poison)
      [] OTHER -> Panicked(Unwrap(result.error), reason, poison)

\* The mutant of conditional_eval treats the not-evaluated signal as eval
\* does.
ConditionalEvalCannotUnmock(result, name, reason, poison) ==
    CASE result.tag = "Yes" -> Returned(result, reason)
      [] result.tag = "No" -> Panicked(MockError("CannotUnmock", name, None), reason, poison)
      [] OTHER -> Panicked(Unwrap(result.error), reason, poison)

\* Unimock::conditional_eval, after mock::eval has produced `result`
ConditionalEval(result, name, reason, poison) ==
    IF result.tag = "Err"
    THEN Panicked(Unwrap(result.error), reason, poison)
    ELSE Returned(result, reason)

\* The mutant of Clone copies the flag of the handle it clones.
CloneKeepsFlag(original_instance) == original_instance

\* impl Clone for Unimock: the original_instance flag of the new handle
CloneUnimock(original_instance) == FALSE

\* Drop returning at one of its two early returns
DropSkipped(reason, poison) ==
    [locked |-> FALSE, counters_checked |-> FALSE, errors |-> <<>>,
     raised |-> None, panic_reason |-> reason, poisoned |-> poison]

\* The mutant of the rest of Drop verifies the counters before it looks at
\* the mailbox.
DropVerificationCountersFirst(reason, poison, registry, order) ==
    LET errors == FlattenSeq([k \in DOMAIN order |-> DynVerify(registry[order[k]])]) IN
    IF errors # <<>>
    THEN [locked |-> FALSE, counters_checked |-> TRUE, errors |-> errors,
          raised |-> Some(JoinStrings([k \in DOMAIN errors |-> ErrorToString(errors[k])])),
          panic_reason |-> reason, poisoned |-> poison]
    ELSE IF reason # None
    THEN [locked |-> TRUE, counters_checked |-> TRUE, errors |-> <<>>,
          raised |-> Some(ErrorToString(Unwrap(reason))),
          panic_reason |-> None, poisoned |-> TRUE]
    ELSE [locked |-> TRUE, counters_checked |-> TRUE, errors |-> <<>>,
          raised |-> None, panic_reason |-> reason, poisoned |-> poison]

\* The mutant of the rest of Drop reports the first verification error only.
DropVerificationFirstError(reason, poison, registry, order) ==
    IF poison
    THEN [locked |-> FALSE, counters_checked |-> FALSE, errors |-> <<>>,
          raised |-> Some(PoisonMessage), panic_reason |-> reason, poisoned |-> poison]
    ELSE IF reason # None
    THEN [locked |-> TRUE, counters_checked |-> FALSE, errors |-> <<>>,
          raised |-> Some(ErrorToString(Unwrap(reason))),
          panic_reason |-> None, poisoned |-> TRUE]
    ELSE LET errors == FlattenSeq([k \in DOMAIN order |-> DynVerify(registry[order[k]])]) IN
         [locked |-> TRUE, counters_checked |-> TRUE, errors |-> errors,
          raised |-> IF errors = <<>> THEN None
                     ELSE Some(ErrorToString(Head(errors))),
          panic_reason |-> reason, poisoned |-> poison]

\* The mutant of the rest of Drop raises a fixed text for a latched failure.
DropVerificationOwnText(reason, poison, registry, order) ==
    IF poison
    THEN [locked |-> FALSE, counters_checked |-> FALSE, errors |-> <<>>,
          raised |-> Some(PoisonMessage), panic_reason |-> reason, poisoned |-> poison]
    ELSE IF reason # None
    THEN [locked |-> TRUE, counters_checked |-> FALSE, errors |-> <<>>,
          raised |-> Some(<<"a call failed in another thread">>),
          panic_reason |-> None, poisoned |-> TRUE]
    ELSE LET errors == FlattenSeq([k \in DOMAIN order |-> DynVerify(registry[order[k]])]) IN
         [locked |-> TRUE, counters_checked |-> TRUE, errors |-> errors,
          raised |-> IF errors = <<>> THEN None
                     ELSE Some(JoinStrings([k \in DOMAIN errors |->
                                              ErrorToString(errors[k])])),
          panic_reason |-> reason, poisoned |-> poison]

\* The mutant of the rest of Drop reads the latched failure and leaves it
\* in the mailbox (as_ref() in the place of take()).
DropVerificationPeeks(reason, poison, registry, order) ==
    IF poison
    THEN [locked |-> FALSE, counters_checked |-> FALSE, errors |-> <<>>,
          raised |-> Some(PoisonMessage), panic_reason |-> reason, poisoned |-> poison]
    ELSE IF reason # None
    THEN [locked |-> TRUE, counters_checked |-> FALSE, errors |-> <<>>,
          raised |-> Some(ErrorToString(Unwrap(reason))),
          panic_reason |-> reason, poisoned |-> TRUE]
    ELSE LET errors == FlattenSeq([k \in DOMAIN order |-> DynVerify(registry[order[k]])]) IN
         [locked |-> TRUE, counters_checked |-> TRUE, errors |-> errors,
          raised |-> IF errors = <<>> THEN None
                     ELSE Some(JoinStrings([k \in DOMAIN errors |->
                                              ErrorToString(errors[k])])),
          panic_reason |-> reason, poisoned |-> poison]

\* Drop after its two early returns (lib.rs:263-282): the mailbox is
\* locked and taken; a latched failure is raised while the guard is still
\* held, which poisons the lock; otherwise every registry entry is
\* verified, in the iteration order of the map, and the errors are raised
\* together.
DropVerification(reason, poison, registry, order) ==
    IF poison
    THEN [locked |-> FALSE, counters_checked |-> FALSE, errors |-> <<>>,
          raised |-> Some(PoisonMessage), panic_reason |-> reason, poisoned |-> poison]
    ELSE IF reason # None
    THEN [locked |-> TRUE, counters_checked |-> FALSE, errors |-> <<>>,
          raised |-> Some(ErrorToString(Unwrap(reason))),
          panic_reason |-> None, poisoned |-> TRUE]
    ELSE LET errors == FlattenSeq([k \in DOMAIN order |-> DynVerify(registry[order[k]])]) IN
         [locked |-> TRUE, counters_checked |-> TRUE, errors |-> errors,
          raised |-> IF errors = <<>> THEN None
                     ELSE Some(JoinStrings([k \in DOMAIN errors |->
                                              ErrorToString(errors[k])])),
          panic_reason |-> reason, poisoned |-> poison]

\* The mutant of Drop does not look at std::thread::panicking().
DropUnimockWhilePanicking(original_instance, thread_panicking, reason, poison, registry, order) ==
    IF ~original_instance THEN DropSkipped(reason, poison)
    ELSE DropVerification(reason, poison, registry, order)

\* impl Drop for Unimock
DropUnimock(original_instance, thread_panicking, reason, poison, registry, order) ==
    IF ~original_instance THEN DropSkipped(reason, poison)
    ELSE IF thread_panicking THEN DropSkipped(reason, poison)
    ELSE DropVerification(reason, poison, registry, order)

\* ------------------------------------------------------------------ state
VARIABLES
    impls,                    \* MockAssembler.impls, later SharedState.impls
    current_call_index,       \* MockAssembler.current_call_index
    assemble_error,           \* the first Err an assemble_into returned, or None
    last_assemble,            \* history: the last assemble_into and its outcome
    n_clauses,                \* history: the clauses iterated so far
    declared,                 \* history: the clauses assembled so far, in order
    fallback_mode,            \* Unimock.fallback_mode (shared by all handles)
    handles,                  \* per thread: how many live handles have
                              \*   original_instance = TRUE (o) / FALSE (c)
    pending,                  \* per thread: the call in progress, or None
    panicking,                \* per thread: std::thread::panicking()
    panic_reason,             \* SharedState.panic_reason: the mailbox
    poisoned,                 \* the poison flag of the panic_reason Mutex
    next_ordered_call_index,  \* the global ordinal of ordered-mode calls
    n_calls,                  \* history: calls started
    n_clones,                 \* history: clones made
    attempts,                 \* history: errors given to prepare_panic, in lock order
    verify_count,             \* history: drops that went on to verification
    orig_release,             \* history: what the drop of the original did
    last_op,                  \* history: what the last step did
    served,                   \* history: per pattern, the ordinals that
                              \*   increase_call_counter returned, in order
    last_eval,                \* history: the last uninterrupted mock::eval
    clone_calls,              \* history: calls started through a handle that
                              \*   is a clone (original_instance = false)
    chain,                    \* the builder chain in progress, or None
    quantified                \* history: the add_to_minimum calls of the chain

asm_vars == <<impls, current_call_index, assemble_error, last_assemble, n_clauses,
             declared>>
run_vars == <<fallback_mode, handles, pending, panicking, panic_reason, poisoned,
              next_ordered_call_index, n_calls, n_clones, attempts, verify_count,
              orig_release, last_op, served, last_eval, clone_calls>>
vars == <<impls, current_call_index, assemble_error, last_assemble, n_clauses, declared,
          fallback_mode, handles, pending, panicking, panic_reason, poisoned,
          next_ordered_call_index, n_calls, n_clones, attempts, verify_count,
          orig_release, last_op, served, last_eval, clone_calls, chain, quantified>>
build_vars == <<chain, quantified>>

\* What a step did: the operation, its thread, whether its handle had
\* original_instance set, whether the thread was unwinding, the mailbox
\* before the step, and for a drop whether it locked the mailbox, whether
\* it verified the counters, the errors it collected and what it raised.
\* The step that ends a call adds the call: its entry point, function and
\* input, the pattern and the responder selected (if any), what mock::eval
\* returned, and what the entry point returned or handed to prepare_panic.
Op(op, thread, original, unwinding, mailbox_before, locked, counters_checked, errors, raised) ==
    [op |-> op, thread |-> thread, original |-> original, unwinding |-> unwinding,
     mailbox_before |-> mailbox_before, locked |-> locked,
     counters_checked |-> counters_checked, errors |-> errors, raised |-> raised,
     call |-> None]

NoOp == Op("none", "main", FALSE, FALSE, None, FALSE, FALSE, <<>>, None)

\* The state of the handles right after mock_from_iterator (lib.rs:449-456):
\* one handle, the original, on the constructing thread; an empty mailbox.
RunInit(mode) ==
    /\ fallback_mode = mode
    /\ handles = [t \in Threads |-> IF t = "main" THEN [o |-> 1, c |-> 0]
                                                  ELSE [o |-> 0, c |-> 0]]
    /\ pending = [t \in Threads |-> None]
    /\ panicking = [t \in Threads |-> FALSE]
    /\ panic_reason = None
    /\ poisoned = FALSE
    /\ next_ordered_call_index = 0
    /\ n_calls = 0
    /\ n_clones = 0
    /\ attempts = <<>>
    /\ verify_count = 0
    /\ orig_release = None
    /\ last_op = NoOp
    /\ served = [k \in {} |-> <<>>]
    /\ last_eval = None
    /\ clone_calls = 0

\* No builder chain is in progress
NoChain == chain = None /\ quantified = <<>>

\* ------------------------------------------------------- the clauses used
Matchers == {{1}, {1, 2}}

\* next_call(matching).returns(..).n_times(n).in_order()
OrderedClause(name, matcher, n) ==
    InOrder(NTimes(MatchResponder(NewMatch(name, matcher), "Value"), n))

\* next_call(matching).returns(..).at_least_times(n).in_any_order()
AnyOrderClause(name, matcher, n) ==
    InAnyOrder(AtLeastTimes(MatchResponder(NewMatch(name, matcher), "Value"), n))

\* stub(|each| { each.call(m1).returns(..).once(); each.call(m2).returns(..); })
StubClause(name) ==
    EachToClause(name,
        << Once(MatchResponder(NewMatch(name, {1}), "Value")).pattern,
           MatchResponder(NewMatch(name, {1, 2}), "Value").pattern >>)

\* A sequence-match clause whose counter is not Exact (DynMockImpl::new is
\* crate-visible and takes any pattern with the InOrder mode).
InexactOrderedClause(name) ==
    DynMockImplNew(name,
        <<AtLeastTimes(MatchResponder(NewMatch(name, {1, 2}), "Value"), 1).pattern>>,
        "InOrder")

\* next_call(m).returns(a).n_times(n).then().returns(b).once().in_order()
ThenOrderedClause(name, n) ==
    InOrder(Once(MatchResponder(Then(NTimes(
        MatchResponder(NewMatch(name, {1, 2}), "Value"), n)), "Value")))

\* stub(|each| { each.call(m).returns(a).once().then().returns(b); })
ThenStubClause(name) ==
    EachToClause(name,
        << MatchResponder(Then(Once(
               MatchResponder(NewMatch(name, {1, 2}), "Value"))), "Value").pattern >>)

ClauseSet ==
    {OrderedClause(name, m, n) : name \in Fns, m \in Matchers, n \in 1..MaxCount}
    \cup {AnyOrderClause(name, {1, 2}, 1) : name \in Fns}
    \cup {StubClause(name) : name \in Fns}
    \cup {InexactOrderedClause("g")}
    \cup {ThenStubClause("f")}

\* ------------------------------------------------------ assembly, stepwise
AsmInit ==
    /\ impls = MockAssemblerNew.impls
    /\ current_call_index = MockAssemblerNew.current_call_index
    /\ assemble_error = None
    /\ last_assemble = None
    /\ n_clauses = 0
    /\ declared = <<>>
    /\ RunInit("Error")
    /\ NoChain

\* mock_from_iterator's loop body (lib.rs:441-447): one clause is assembled
\* into the assembler.  The value that assemble_into returns is dropped by
\* the statement that calls it, so the loop goes on to the next clause
\* whether it was Ok or Err.
Assemble(clause) ==
    /\ n_clauses < MaxClauses
    /\ LET r == AssembleInto(clause,
                    [impls |-> impls, current_call_index |-> current_call_index]) IN
       /\ impls' = r.assembler.impls
       /\ current_call_index' = r.assembler.current_call_index
       /\ assemble_error' = IF assemble_error = None THEN r.error ELSE assemble_error
       /\ last_assemble' = Some([clause |-> clause, ok |-> r.ok, error |-> r.error,
                                 impls_before |-> impls,
                                 cursor_before |-> current_call_index])
       /\ declared' = IF r.ok THEN Append(declared, clause) ELSE declared
    /\ n_clauses' = n_clauses + 1
    /\ UNCHANGED <<run_vars, build_vars>>

AsmNext == \E clause \in ClauseSet : Assemble(clause)

SpecAsm == AsmInit /\ [][AsmNext]_vars

\* ------------------------------------------------- the life of the handles
\* The clause lists that the handles are constructed from
PanicClause(name) ==
    InAnyOrder(MatchResponder(NewMatch(name, {2}), "Panic"))

UnmockClause(name) ==
    InAnyOrder(MatchResponder(NewMatch(name, {1, 2}), "Unmock"))

\* The constructions followed: mock(..) and spy(..) of a stub that leaves
\* "g" without an entry, and two registries with an entry for every
\* function, where the fallback is never consulted.
Constructions ==
    { [clauses |-> <<StubClause("f")>>, fallback |-> "Error"],
      [clauses |-> <<StubClause("f")>>, fallback |-> "Unmock"],
      [clauses |-> <<OrderedClause("f", {1}, 1), OrderedClause("g", {1, 2}, 1)>>,
       fallback |-> "Error"],
      [clauses |-> <<AnyOrderClause("f", {1, 2}, MaxCount), UnmockClause("g")>>,
       fallback |-> "Unmock"] }

\* mock_from_iterator: every clause is assembled into one assembler
RECURSIVE AssembleAll(_, _)
AssembleAll(clauses, assembler) ==
    IF clauses = <<>> THEN assembler
    ELSE AssembleAll(Tail(clauses), AssembleInto(Head(clauses), assembler).assembler)

\* mock(clauses) / spy(clauses)
Init ==
    \E construction \in Constructions :
        LET assembler == AssembleAll(construction.clauses, MockAssemblerNew) IN
        /\ impls = assembler.impls
        /\ current_call_index = assembler.current_call_index
        /\ assemble_error = None
        /\ last_assemble = None
        /\ n_clauses = Len(construction.clauses)
        /\ declared = construction.clauses
        /\ RunInit(construction.fallback)
        /\ NoChain

Holds(t, original) ==
    IF original THEN handles[t].o > 0 ELSE handles[t].c > 0

\* unimock.clone() on thread t; the new handle is moved to thread target
Clone(t, original, target) ==
    /\ n_clones < MaxClones
    /\ pending[t] = None
    /\ ~panicking[t]
    /\ Holds(t, original)
    /\ handles' = [handles EXCEPT ![target] =
                      IF CloneUnimock(original) THEN [@ EXCEPT !.o = @ + 1]
                                                ELSE [@ EXCEPT !.c = @ + 1]]
    /\ n_clones' = n_clones + 1
    /\ last_op' = Op("clone", t, original, panicking[t], panic_reason,
                     FALSE, FALSE, <<>>, None)
    /\ UNCHANGED <<asm_vars, fallback_mode, pending, panicking, panic_reason, poisoned,
                   next_ordered_call_index, n_calls, attempts, verify_count,
                   orig_release, served, last_eval, clone_calls, build_vars>>

\* The ordinals returned so far, with the one returned now for pattern i
\* of function name
Serve(history, name, i, ordinal) ==
    [k \in DOMAIN history \cup {<<name, i>>} |->
        IF k = <<name, i>>
        THEN Append(IF k \in DOMAIN history THEN history[k] ELSE <<>>, ordinal)
        ELSE history[k]]

\* eval / conditional_eval enter mock::eval: the registry lookup and the
\* selection of the pattern
CallBegin(t, original, entry, name, input) ==
    /\ n_calls < MaxCalls
    /\ pending[t] = None
    /\ ~panicking[t]
    /\ Holds(t, original)
    /\ LET m == EvalMatch(impls, name, input, fallback_mode, next_ordered_call_index) IN
       /\ next_ordered_call_index' = m.ordinal
       /\ pending' = [pending EXCEPT ![t] =
                         Some([entry |-> entry, name |-> name, original |-> original,
                               input |-> input, matched |-> m.matched,
                               index |-> m.index, call_ordinal |-> m.call_ordinal,
                               pat_ordinal |-> None, responder |-> 0,
                               result |-> m.result])]
    /\ n_calls' = n_calls + 1
    /\ clone_calls' = IF original THEN clone_calls ELSE clone_calls + 1
    /\ last_op' = Op("call_begin", t, original, panicking[t], panic_reason,
                     FALSE, FALSE, <<>>, None)
    /\ UNCHANGED <<asm_vars, fallback_mode, handles,
                   panicking, panic_reason, poisoned, n_clones, attempts, verify_count,
                   orig_release, served, last_eval, build_vars>>

\* mock::eval goes on with the pattern it selected: the counter is
\* incremented and the responder is executed
CallRespond(t) ==
    /\ pending[t] # None
    /\ Unwrap(pending[t]).result = None
    /\ LET p == Unwrap(pending[t])
           e == EvalRespond(impls, p.name, p.input, p.index) IN
       /\ impls' = e.impls
       /\ served' = Serve(served, p.name, p.index, e.pat_ordinal)
       /\ pending' = [pending EXCEPT ![t] =
                         Some([p EXCEPT !.result = Some(e.result),
                                        !.pat_ordinal = Some(e.pat_ordinal),
                                        !.responder = e.responder])]
       /\ last_op' = Op("call_respond", t, p.original, panicking[t], panic_reason,
                        FALSE, FALSE, <<>>, None)
    /\ UNCHANGED <<current_call_index, assemble_error, last_assemble, n_clauses, declared, fallback_mode, handles,
                   panicking, panic_reason, poisoned, next_ordered_call_index, n_calls,
                   n_clones, attempts, verify_count, orig_release, last_eval, clone_calls, build_vars>>

\* The second half of eval / conditional_eval: the match on the result
CallEnd(t) ==
    /\ pending[t] # None
    /\ Unwrap(pending[t]).result # None
    /\ LET p == Unwrap(pending[t])
           result == Unwrap(p.result)
           o == IF p.entry = "eval"
                THEN Eval(result, p.name, panic_reason, poisoned)
                ELSE ConditionalEval(result, p.name, panic_reason, poisoned) IN
       /\ panic_reason' = o.panic_reason
       /\ panicking' = [panicking EXCEPT ![t] = (o.raised # None)]
       /\ attempts' = IF o.prepared = None THEN attempts
                      ELSE Append(attempts,
                                  [thread |-> t, original |-> p.original,
                                   error |-> Unwrap(o.prepared),
                                   raised |-> Unwrap(o.raised)])
       /\ last_op' = [Op("call_end", t, p.original, panicking[t], panic_reason,
                         FALSE, FALSE, <<>>, o.raised)
                         EXCEPT !.call = Some([entry |-> p.entry, name |-> p.name,
                                               input |-> p.input, matched |-> p.matched,
                                               index |-> p.index,
                                               responder |-> p.responder,
                                               result |-> result,
                                               returned |-> o.returned,
                                               prepared |-> o.prepared])]
    /\ pending' = [pending EXCEPT ![t] = None]
    /\ UNCHANGED <<asm_vars, fallback_mode, handles, poisoned,
                   next_ordered_call_index, n_calls, n_clones, verify_count,
                   orig_release, served, last_eval, clone_calls, build_vars>>

\* A handle of thread t goes out of scope
Drop(t, original) ==
    /\ pending[t] = None
    /\ Holds(t, original)
    /\ \E order \in IterationOrders(DOMAIN impls) :
         LET d == DropUnimock(original, panicking[t], panic_reason, poisoned,
                              impls, order) IN
         /\ panic_reason' = d.panic_reason
         /\ poisoned' = d.poisoned
         /\ panicking' = [panicking EXCEPT ![t] = @ \/ (d.raised # None)]
         /\ verify_count' = IF d.locked \/ d.counters_checked
                            THEN verify_count + 1 ELSE verify_count
         /\ last_op' = Op("drop", t, original, panicking[t], panic_reason,
                          d.locked, d.counters_checked, d.errors, d.raised)
         /\ orig_release' = IF original
                             THEN Some([thread |-> t, unwinding |-> panicking[t],
                                        raised |-> d.raised,
                                        failures_before |-> Len(attempts)])
                             ELSE orig_release
    /\ handles' = [handles EXCEPT ![t] =
                      IF original THEN [@ EXCEPT !.o = @ - 1]
                                  ELSE [@ EXCEPT !.c = @ - 1]]
    /\ UNCHANGED <<asm_vars, fallback_mode, pending, next_ordered_call_index,
                   n_calls, n_clones, attempts, served, last_eval, clone_calls, build_vars>>

\* Thread t starts to unwind for a reason of its own (a failed assertion).
\* Only Drop of a handle with original_instance reads the flag, so only the
\* threads that hold such a handle are followed.
ThreadPanics(t) ==
    /\ pending[t] = None
    /\ ~panicking[t]
    /\ handles[t].o > 0
    /\ panicking' = [panicking EXCEPT ![t] = TRUE]
    /\ last_op' = Op("panic", t, FALSE, FALSE, panic_reason, FALSE, FALSE, <<>>, None)
    /\ UNCHANGED <<asm_vars, fallback_mode, handles, pending, panic_reason, poisoned,
                   next_ordered_call_index, n_calls, n_clones, attempts, verify_count,
                   orig_release, served, last_eval, clone_calls, build_vars>>

\* The unwinding of thread t is caught (catch_unwind) and the thread goes on
CatchUnwind(t) ==
    /\ panicking[t]
    /\ handles[t].o + handles[t].c > 0
    /\ panicking' = [panicking EXCEPT ![t] = FALSE]
    /\ last_op' = Op("catch", t, FALSE, TRUE, panic_reason, FALSE, FALSE, <<>>, None)
    /\ UNCHANGED <<asm_vars, fallback_mode, handles, pending, panic_reason, poisoned,
                   next_ordered_call_index, n_calls, n_clones, attempts, verify_count,
                   orig_release, served, last_eval, clone_calls, build_vars>>

Next ==
    \/ \E t \in Threads, original \in BOOLEAN, target \in Threads :
          Clone(t, original, target)
    \/ \E t \in Threads, original \in BOOLEAN, entry \in {"eval", "conditional_eval"},
          name \in Fns, input \in Inputs :
          CallBegin(t, original, entry, name, input)
    \/ \E t \in Threads : CallRespond(t)
    \/ \E t \in Threads : CallEnd(t)
    \/ \E t \in Threads, original \in BOOLEAN : Drop(t, original)
    \/ \E t \in Threads : ThreadPanics(t)
    \/ \E t \in Threads : CatchUnwind(t)

Spec == Init /\ [][Next]_vars

\* ------------------------------------- construction, then calls in sequence
MaxEvalCalls == 3   \* calls evaluated one after the other on one registry
MaxEvalClauses == 2 \* clauses of the registries that the calls are evaluated on

\* The clauses that those registries are built from
EvalClauseSet ==
    {OrderedClause(name, m, 1) : name \in Fns, m \in Matchers}
    \cup {OrderedClause("f", {1, 2}, MaxCount), ThenOrderedClause("f", MaxCount)}
    \cup {StubClause("f"), ThenStubClause("f")}
    \cup {AnyOrderClause("g", m, 1) : m \in Matchers}

\* mock(clauses) or spy(clauses), the clauses still to be iterated
EvalInit ==
    /\ impls = MockAssemblerNew.impls
    /\ current_call_index = MockAssemblerNew.current_call_index
    /\ assemble_error = None
    /\ last_assemble = None
    /\ n_clauses = 0
    /\ declared = <<>>
    /\ \E mode \in {"Error", "Unmock"} : RunInit(mode)
    /\ NoChain

\* mock_from_iterator's loop body; the handle does not exist yet
Declare(clause) ==
    /\ n_calls = 0
    /\ n_clauses < MaxEvalClauses
    /\ Assemble(clause)

\* mock::eval on the handle that mock_from_iterator returned (lib.rs:449-456
\* returns it whatever the assemble_into calls returned), on one thread.
EvalCall(name, input) ==
    /\ n_calls < MaxEvalCalls
    /\ LET m == EvalMatch(impls, name, input, fallback_mode, next_ordered_call_index)
           e == MockEval(impls, name, input, fallback_mode, next_ordered_call_index)
           r == IF m.matched THEN EvalRespond(impls, name, input, m.index)
                             ELSE [pat_ordinal |-> 0, responder |-> 0] IN
       /\ impls' = e.impls
       /\ next_ordered_call_index' = e.ordinal
       /\ served' = IF m.matched THEN Serve(served, name, m.index, r.pat_ordinal)
                                 ELSE served
       /\ last_eval' = Some([name |-> name, input |-> input,
                             impls_before |-> impls,
                             ordinal_before |-> next_ordered_call_index,
                             matched |-> m.matched, index |-> m.index,
                             pat_ordinal |-> r.pat_ordinal, responder |-> r.responder,
                             result |-> e.result])
    /\ n_calls' = n_calls + 1
    /\ UNCHANGED <<current_call_index, assemble_error, last_assemble, n_clauses, declared,
                   fallback_mode, handles, pending, panicking, panic_reason, poisoned,
                   n_clones, attempts, verify_count, orig_release, last_op, clone_calls, build_vars>>

EvalNext ==
    \/ \E clause \in EvalClauseSet : Declare(clause)
    \/ \E name \in Fns, input \in Inputs : EvalCall(name, input)

SpecEval == EvalInit /\ [][EvalNext]_vars

\* ------------------------------------------------------ the builder chain
MaxResponses == 2   \* responders given to one call pattern

Orderings == {"InOrder", "InAnyOrder"}

\* The stage of the chain (the type that the last method returned), the
\* ordering O and, once quantified, the repetition R
Stage(q, stage, ordering, repetition) ==
    [q |-> q, stage |-> stage, ordering |-> ordering, repetition |-> repetition]

Chain == Unwrap(chain)

\* One add_to_minimum of the chain: the method that made it, its arguments
\* and the counter before and after it
Quantified(method, n, exactness, before, after) ==
    [method |-> method, n |-> n, exactness |-> exactness,
     before |-> before, after |-> after]

BuildInit ==
    /\ impls = MockAssemblerNew.impls
    /\ current_call_index = MockAssemblerNew.current_call_index
    /\ assemble_error = None
    /\ last_assemble = None
    /\ n_clauses = 0
    /\ declared = <<>>
    /\ RunInit("Error")
    /\ NoChain

\* Match::new_owned / Each::call: a new call pattern with the counter
\* CallCounter::new(0, AtLeast) and response_index 0
NewChain(name, matcher, ordering) ==
    /\ chain = None
    /\ declared = <<>>
    /\ chain' = Some(Stage(NewMatch(name, matcher), "Match", ordering, None))
    /\ quantified' = <<>>
    /\ UNCHANGED <<asm_vars, run_vars>>

\* Match::returns / panics / unmocked, all through Match::responder
RespondStep(responder) ==
    /\ chain # None
    /\ Chain.stage = "Match"
    /\ Len(Chain.q.pattern.responders) < MaxResponses
    /\ chain' = Some(Stage(MatchResponder(Chain.q, responder), "QuantifyResponse",
                           Chain.ordering, None))
    /\ UNCHANGED <<asm_vars, run_vars, quantified>>

\* QuantifyResponse::once
OnceStep ==
    /\ chain # None
    /\ Chain.stage = "QuantifyResponse"
    /\ LET q == Once(Chain.q) IN
       /\ chain' = Some(Stage(q, "QuantifiedResponse", Chain.ordering, Some("Exact")))
       /\ quantified' = Append(quantified,
                               Quantified("once", 1, "Exact",
                                          Chain.q.pattern.call_counter,
                                          q.pattern.call_counter))
    /\ UNCHANGED <<asm_vars, run_vars>>

\* QuantifyResponse::n_times
NTimesStep(times) ==
    /\ chain # None
    /\ Chain.stage = "QuantifyResponse"
    /\ LET q == NTimes(Chain.q, times) IN
       /\ chain' = Some(Stage(q, "QuantifiedResponse", Chain.ordering, Some("Exact")))
       /\ quantified' = Append(quantified,
                               Quantified("n_times", times, "Exact",
                                          Chain.q.pattern.call_counter,
                                          q.pattern.call_counter))
    /\ UNCHANGED <<asm_vars, run_vars>>

\* QuantifyResponse::at_least_times
AtLeastTimesStep(times) ==
    /\ chain # None
    /\ Chain.stage = "QuantifyResponse"
    /\ LET q == AtLeastTimes(Chain.q, times) IN
       /\ chain' = Some(Stage(q, "QuantifiedResponse", Chain.ordering, Some("AtLeast")))
       /\ quantified' = Append(quantified,
                               Quantified("at_least_times", times, "AtLeast",
                                          Chain.q.pattern.call_counter,
                                          q.pattern.call_counter))
    /\ UNCHANGED <<asm_vars, run_vars>>

\* QuantifiedResponse::then (where R: Repetition<Kind = Exact>)
ThenStep ==
    /\ chain # None
    /\ Chain.stage = "QuantifiedResponse"
    /\ Chain.repetition = Some("Exact")
    /\ Len(Chain.q.pattern.responders) < MaxResponses
    /\ LET q == Then(Chain.q) IN
       /\ chain' = Some(Stage(q, "Match", Chain.ordering, None))
       /\ quantified' = Append(quantified,
                               Quantified("then", 0, "AtLeastPlusOne",
                                          Chain.q.pattern.call_counter,
                                          q.pattern.call_counter))
    /\ UNCHANGED <<asm_vars, run_vars>>

\* QuantifiedResponse::in_order (where O is InOrder and R is Exact): the
\* chain ends in a clause, kept as the one clause declared
InOrderStep ==
    /\ chain # None
    /\ Chain.stage = "QuantifiedResponse"
    /\ Chain.ordering = "InOrder"
    /\ Chain.repetition = Some("Exact")
    /\ declared' = <<InOrder(Chain.q)>>
    /\ chain' = None
    /\ UNCHANGED <<impls, current_call_index, assemble_error, last_assemble, n_clauses,
                   run_vars, quantified>>

\* QuantifyResponse::in_any_order / QuantifiedResponse::in_any_order (where
\* O is InAnyOrder)
InAnyOrderStep ==
    /\ chain # None
    /\ Chain.stage \in {"QuantifyResponse", "QuantifiedResponse"}
    /\ Chain.ordering = "InAnyOrder"
    /\ declared' = <<InAnyOrder(Chain.q)>>
    /\ chain' = None
    /\ UNCHANGED <<impls, current_call_index, assemble_error, last_assemble, n_clauses,
                   run_vars, quantified>>

BuildNext ==
    \/ \E name \in Fns, matcher \in Matchers, ordering \in Orderings :
          NewChain(name, matcher, ordering)
    \/ \E responder \in {"Value", "Unmock"} : RespondStep(responder)
    \/ OnceStep
    \/ \E times \in 0..MaxCount : NTimesStep(times)
    \/ \E times \in 0..MaxCount : AtLeastTimesStep(times)
    \/ ThenStep
    \/ InOrderStep
    \/ InAnyOrderStep

SpecBuild == BuildInit /\ [][BuildNext]_vars

\* ================================================================ properties
IsDrop == last_op.op = "drop"
OriginalDrop == IsDrop /\ last_op.original
Released == orig_release # None
Release == Unwrap(orig_release)

\* The text `text` occurs in the message `msg`
Contains(msg, text) ==
    \E k \in 1..(Len(msg) - Len(text) + 1) : SubSeq(msg, k, k + Len(text) - 1) = text

\* Some contract of the registry is unsatisfied right now
SomeCounterUnsatisfied ==
    \E name \in DOMAIN impls :
        \/ ~impls[name].has_applications
        \/ \E i \in DOMAIN impls[name].patterns :
              impls[name].patterns[i].call_counter.actual
                < impls[name].patterns[i].call_counter.minimum

\* C1: verification (locking and replaying the mailbox, checking the
\* counters) is done at most once and only by the drop of the handle with
\* original_instance; the drop of a clone locks nothing, checks nothing,
\* raises nothing and leaves the mailbox as it was.
C1_OnlyOriginalVerifiesOnce ==
    /\ verify_count <= 1
    /\ (last_op.locked \/ last_op.counters_checked) => OriginalDrop
    /\ (IsDrop /\ ~last_op.original) =>
          /\ ~last_op.locked
          /\ ~last_op.counters_checked
          /\ last_op.errors = <<>>
          /\ last_op.raised = None
          /\ panic_reason = last_op.mailbox_before

\* A clone is dropped after the original was verified, a second clone exists
C1_Witness ==
    /\ IsDrop /\ ~last_op.original
    /\ Released /\ verify_count = 1
    /\ n_clones >= 2

\* C2 as stated: when the original is dropped on a thread that is not
\* unwinding and made no failing call, the drop raises the message of every
\* failure that a call through a clone raised on another thread before.
C2_EveryWorkerFailureReplayed ==
    (/\ Released
     /\ ~Release.unwinding
     /\ \A i \in 1..Release.failures_before : attempts[i].thread # Release.thread)
    => \A i \in 1..Release.failures_before :
          ~attempts[i].original => Release.raised = Some(attempts[i].raised)

\* C2 amended: under the same conditions the drop of the original raises
\* exactly the message that the first failing call raised at its call site.
C2_FirstWorkerFailureReplayed ==
    (/\ Released
     /\ ~Release.unwinding
     /\ \A i \in 1..Release.failures_before : attempts[i].thread # Release.thread
     /\ Release.failures_before >= 1
     /\ ~attempts[1].original)
    => Release.raised = Some(attempts[1].raised)

\* A worker's call through a clone failed, then main dropped the original
C2_Witness ==
    /\ Released
    /\ ~Release.unwinding
    /\ Release.failures_before >= 1
    /\ \A i \in 1..Release.failures_before :
          attempts[i].thread # Release.thread /\ ~attempts[i].original
    /\ Release.raised = Some(attempts[1].raised)

\* C3 as stated: once the original has been dropped, every failure that a
\* call raised before on another thread has been raised by that drop.
C3_EveryFailureRaisedAtRelease ==
    Released =>
        \A i \in 1..Release.failures_before :
            attempts[i].thread # Release.thread
            => Release.raised = Some(attempts[i].raised)

\* C3 amended: the first call-time failure is never lost from the mailbox:
\* it is latched there until the original is dropped on a thread that is not
\* unwinding, and that drop raises it.
C3_FirstFailureKeptUntilReplayed ==
    attempts # <<>> =>
        \/ panic_reason = Some(attempts[1].error)
        \/ /\ Released
           /\ ~Release.unwinding
           /\ Release.failures_before >= 1
           /\ Release.raised = Some(ErrorToString(attempts[1].error))
           /\ panic_reason = None

\* The drop of the original has replayed a failure of another thread while a
\* later failure had been dropped from the mailbox
C3_Witness ==
    /\ Released
    /\ Release.failures_before >= 2
    /\ attempts[1].thread # Release.thread
    /\ attempts[2].error # attempts[1].error
    /\ Release.raised = Some(ErrorToString(attempts[1].error))
    /\ panic_reason = None

\* C4: the mailbox is first-wins: while it is occupied it holds the error of
\* the first failing call, and a failing call that finds it occupied leaves
\* it as it was.
C4_MailboxFirstWins ==
    /\ panic_reason # None =>
          attempts # <<>> /\ panic_reason = Some(attempts[1].error)
    /\ (last_op.op = "call_end" /\ last_op.raised # None
            /\ last_op.mailbox_before # None)
          => panic_reason = last_op.mailbox_before

\* Two calls on different threads failed with different errors
C4_Witness ==
    /\ last_op.op = "call_end" /\ last_op.raised # None
    /\ Len(attempts) = 2
    /\ attempts[1].thread # attempts[2].thread
    /\ attempts[1].error # attempts[2].error
    /\ panic_reason = Some(attempts[1].error)

\* C5: a call that fails raises and leaves the mailbox occupied; a call that
\* returns leaves the mailbox unchanged.
C5_FailingCallLatches ==
    /\ (last_op.op = "call_end" /\ last_op.raised # None) => panic_reason # None
    /\ (last_op.op = "call_end" /\ last_op.raised = None)
          => panic_reason = last_op.mailbox_before

\* C6: when the original is dropped on a thread that is not unwinding and
\* the mailbox is occupied, the drop raises exactly the latched failure and
\* collects no counter or never-applied error; the counters are verified
\* only when the mailbox was empty.
C6_LatchedFailurePreempts ==
    (OriginalDrop /\ ~last_op.unwinding) =>
        /\ last_op.mailbox_before # None =>
              /\ last_op.raised = Some(ErrorToString(Unwrap(last_op.mailbox_before)))
              /\ ~last_op.counters_checked
              /\ last_op.errors = <<>>
        /\ last_op.counters_checked => last_op.mailbox_before = None

\* The original is dropped with an occupied mailbox and an unsatisfied counter
C6_Witness ==
    /\ OriginalDrop /\ ~last_op.unwinding
    /\ last_op.mailbox_before # None
    /\ last_op.raised # None
    /\ SomeCounterUnsatisfied

\* C7: when the thread that drops the original is unwinding, the drop
\* raises nothing, neither locks nor empties the mailbox and checks no
\* counter.
C7_UnwindingReleaseSkips ==
    (OriginalDrop /\ last_op.unwinding) =>
        /\ last_op.raised = None
        /\ ~last_op.locked
        /\ ~last_op.counters_checked
        /\ last_op.errors = <<>>
        /\ panic_reason = last_op.mailbox_before
        /\ ~poisoned

\* The original is dropped while unwinding, with a latched failure and an
\* unsatisfied counter that a verification would have reported
C7_Witness ==
    /\ OriginalDrop /\ last_op.unwinding
    /\ last_op.mailbox_before # None
    /\ SomeCounterUnsatisfied

\* The drop has collected this error for pattern i (0-based) of `name`
Flagged(kind, name, i) ==
    MockError(kind, name, Some(i)) \in Range(last_op.errors)

ExpectedErrors ==
    {MockError("MockNeverCalled", name, None) :
        name \in {n \in DOMAIN impls : ~impls[n].has_applications}}
    \cup UNION {UNION {Range(CallCounterVerify(impls[name].patterns[i].call_counter,
                                               name, i - 1)) :
                          i \in DOMAIN impls[name].patterns} :
                  name \in DOMAIN impls}

\* C9: when the original is dropped with an empty mailbox on a thread that
\* is not unwinding, every entry and every pattern is verified, the drop
\* raises iff there is at least one error, and the raised report holds the
\* text of every error.
C9_AllErrorsReported ==
    (OriginalDrop /\ ~last_op.unwinding /\ last_op.mailbox_before = None) =>
        /\ last_op.counters_checked
        /\ Range(last_op.errors) = ExpectedErrors
        /\ last_op.raised # None <=> ExpectedErrors # {}
        /\ \A e \in ExpectedErrors :
              Contains(Unwrap(last_op.raised), ErrorToString(e))

\* A verification found errors for two different functions
C9_Witness ==
    /\ OriginalDrop /\ ~last_op.unwinding /\ last_op.mailbox_before = None
    /\ last_op.raised # None
    /\ \E e1, e2 \in ExpectedErrors : e1.name # e2.name

\* ------------------------------------------------ properties of assembly
\* The sequence-match clauses assembled so far, in declaration order
OrderedDeclared ==
    SelectSeq(declared, LAMBDA clause : clause.pattern_match_mode = "InOrder")

\* The registry's pattern for the k-th of them
AssembledPattern(k) ==
    LET name == OrderedDeclared[k].name
        j == Cardinality({i \in 1..k : OrderedDeclared[i].name = name}) IN
    impls[name].patterns[j]

OrderedFns == {name \in DOMAIN impls : impls[name].pattern_match_mode = "InOrder"}

\* C10 as stated: the call-index ranges of the patterns of each single
\* function partition [0, total_calls of that function): the first starts
\* at 0, each next one starts where the previous one ends.
C10_PerFunctionPartition ==
    \A name \in OrderedFns :
        LET ps == impls[name].patterns IN
        /\ ps[1].call_index_range.start = 0
        /\ \A i \in 1..(Len(ps) - 1) :
              ps[i + 1].call_index_range.start = ps[i].call_index_range.end
        /\ ps[Len(ps)].call_index_range.end =
              SumSeq([i \in 1..Len(ps) |-> ps[i].call_counter.minimum])

\* C10 amended: the call-index ranges of the sequence-match patterns of all
\* functions together, in clause-declaration order, partition
\* [0, current_call_index): each has the length of its exact count, the
\* first starts at 0 and each next one starts where the previous one, of
\* whatever function, ends; the ranges of one function are disjoint and
\* follow declaration order.
C10_GlobalPartition ==
    LET n == Len(OrderedDeclared) IN
    /\ \A k \in 1..n :
          AssembledPattern(k).call_index_range.end
            = AssembledPattern(k).call_index_range.start
              + OrderedDeclared[k].patterns[1].call_counter.minimum
    /\ n >= 1 => AssembledPattern(1).call_index_range.start = 0
    /\ \A k \in 1..(n - 1) :
          AssembledPattern(k + 1).call_index_range.start
            = AssembledPattern(k).call_index_range.end
    /\ current_call_index = IF n = 0 THEN 0 ELSE AssembledPattern(n).call_index_range.end
    /\ \A name \in OrderedFns :
          LET ps == impls[name].patterns IN
          /\ Len(ps) = Cardinality({k \in 1..n : OrderedDeclared[k].name = name})
          /\ \A i, j \in 1..Len(ps) :
                i < j => ps[i].call_index_range.end <= ps[j].call_index_range.start

\* Clauses for "f", "g" and "f" again were assembled, all sequence-match
\* with a positive count
C10_Witness ==
    /\ OrderedFns = Fns
    /\ Len(impls["f"].patterns) = 2
    /\ impls["f"].patterns[1].call_index_range.end > impls["f"].patterns[1].call_index_range.start
    /\ impls["f"].patterns[2].call_index_range.start > impls["f"].patterns[1].call_index_range.end
    /\ impls["f"].patterns[2].call_index_range.end > impls["f"].patterns[2].call_index_range.start

\* ------------------------------------------------------------------- C11
LastEval == Unwrap(last_eval)

\* The last call was to a function registered in the mode `mode`
LastEvalIn(mode) ==
    /\ last_eval # None
    /\ LastEval.name \in DOMAIN LastEval.impls_before
    /\ LastEval.impls_before[LastEval.name].pattern_match_mode = mode

ErrOf(result, kind) ==
    result.tag = "Err" /\ Unwrap(result.error).kind = kind

\* The patterns of the registry whose call-index range contains ordinal i
Containing(registry, i) ==
    {nk \in UNION {{<<name, k>> : k \in DOMAIN registry[name].patterns} :
                     name \in DOMAIN registry} :
        /\ registry[nk[1]].pattern_match_mode = "InOrder"
        /\ registry[nk[1]].patterns[nk[2]].call_index_range.start <= i
        /\ i < registry[nk[1]].patterns[nk[2]].call_index_range.end}

Schedule(clauses) ==
    FlattenSeq([k \in 1..Len(clauses) |->
        IF clauses[k].pattern_match_mode = "InOrder"
        THEN [j \in 1..clauses[k].patterns[1].call_counter.minimum |->
                 [name |-> clauses[k].name,
                  matcher |-> clauses[k].patterns[1].input_matcher]]
        ELSE <<>>])

\* C12: while declared in-order calls are outstanding, a call to an
\* ordered-mode function succeeds exactly when it is the call that the
\* clauses declare next (that function, with an input the clause accepts);
\* a call to another ordered-mode function fails.
C12_DeclaredOrderAcrossFunctions ==
    (LastEvalIn("InOrder") /\ LastEval.ordinal_before < Len(Schedule(declared))) =>
        LET c == LastEval
            expected == Schedule(declared)[c.ordinal_before + 1] IN
        /\ (c.name = expected.name /\ c.input \in expected.matcher)
              <=> c.result.tag = "Yes"
        /\ c.name # expected.name => c.result.tag = "Err"

\* After the first declared call was made, the function of the first clause
\* is called again although the next clause is for another function.
C12_Witness ==
    /\ LastEvalIn("InOrder")
    /\ LastEval.ordinal_before = 1
    /\ Len(Schedule(declared)) >= 2
    /\ Schedule(declared)[1].name = LastEval.name
    /\ Schedule(declared)[2].name # LastEval.name
    /\ <<LastEval.name, 1>> \in DOMAIN served
    /\ LastEval.result.tag = "Err"

\* ------------------------------------------------------------------- C13
\* The pattern of the called function that is eligible at the call's ordinal
EligibleAtOrdinal ==
    {nk \in Containing(LastEval.impls_before, LastEval.ordinal_before) :
        nk[1] = LastEval.name}

\* C13: when the matcher of the pattern eligible at the ordinal of an
\* ordered-mode call rejects the input, the call fails and no pattern serves
\* it: no counter moves, whatever the later patterns would accept.
C13_RejectedOrderedCallFails ==
    LastEvalIn("InOrder") =>
        \A nk \in EligibleAtOrdinal :
            LastEval.input \notin
                LastEval.impls_before[nk[1]].patterns[nk[2]].input_matcher
            => /\ LastEval.result.tag = "Err"
               /\ ~LastEval.matched
               /\ impls = LastEval.impls_before

\* The eligible pattern rejects the input and a later pattern of the same
\* function would accept it.
C13_Witness ==
    /\ LastEvalIn("InOrder")
    /\ \E nk \in EligibleAtOrdinal :
          LET ps == LastEval.impls_before[nk[1]].patterns IN
          /\ LastEval.input \notin ps[nk[2]].input_matcher
          /\ \E later \in DOMAIN ps :
                later > nk[2] /\ LastEval.input \in ps[later].input_matcher
    /\ LastEval.result.tag = "Err"

\* ------------------------------------------------------------------- C14
\* The patterns that qualify for the last call: the matcher accepts the
\* input and no Exact quota is used up
Qualifying ==
    LET ps == LastEval.impls_before[LastEval.name].patterns IN
    {i \in DOMAIN ps :
        /\ LastEval.input \in ps[i].input_matcher
        /\ ~(/\ ps[i].call_counter.exactness = "Exact"
             /\ ps[i].call_counter.actual >= ps[i].call_counter.minimum)}

\* C14: a call to an unordered-mode function is served by the first pattern
\* in declaration order that accepts the input and has no used-up Exact
\* quota, and fails with NoMatchingPattern when there is none.  For the stub
\* "accept 1 once, then accept anything": the first call with input 1 is
\* served by the first pattern, every other call by the second.
C14_FirstQualifyingPattern ==
    LastEvalIn("InAnyOrder") =>
        LET c == LastEval IN
        /\ Qualifying # {} =>
              /\ c.matched
              /\ c.index \in Qualifying
              /\ \A j \in Qualifying : c.index <= j
        /\ Qualifying = {} => ErrOf(c.result, "NoMatchingPattern")
        /\ declared = <<StubClause(c.name)>> =>
              /\ c.matched
              /\ c.index =
                   IF /\ c.input = 1
                      /\ c.impls_before[c.name].patterns[1].call_counter.actual = 0
                   THEN 1 ELSE 2

\* The first pattern accepts the input but its Exact quota is used up: the
\* call is served by a later pattern.
C14_Witness ==
    /\ LastEvalIn("InAnyOrder")
    /\ LET ps == LastEval.impls_before[LastEval.name].patterns IN
       /\ LastEval.input \in ps[1].input_matcher
       /\ ps[1].call_counter.exactness = "Exact"
       /\ ps[1].call_counter.actual = ps[1].call_counter.minimum
       /\ ps[1].call_counter.actual > 0
    /\ LastEval.matched
    /\ LastEval.index = 2

\* ------------------------------------------------------------------- C15
\* The calls served so far by pattern i of function name
ServedBy(name, i) ==
    IF <<name, i>> \in DOMAIN served THEN Len(served[<<name, i>>]) ELSE 0

ServingPattern == LastEval.impls_before[LastEval.name].patterns[LastEval.index]

\* C16: the call with per-pattern ordinal k (the number of calls the pattern
\* served before) is answered by the responder with the greatest response
\* step <= k.  After n_times(n).then() the second responder has step n: it
\* answers from the call with ordinal n on; after once().then() in a stub
\* it answers every call but the first.
C16_ResponderStaircase ==
    (last_eval # None /\ LastEval.matched) =>
        LET c == LastEval
            rs == ServingPattern.responders
            k == c.pat_ordinal IN
        /\ k = ServingPattern.call_counter.actual
        /\ c.responder \in DOMAIN rs
        /\ rs[c.responder].response_index <= k
        /\ \A j \in DOMAIN rs :
              rs[j].response_index <= k
              => rs[j].response_index <= rs[c.responder].response_index
        /\ declared = <<ThenOrderedClause(c.name, MaxCount)>>
              => c.responder = IF k < MaxCount THEN 1 ELSE 2
        /\ declared = <<ThenStubClause(c.name)>>
              => c.responder = IF k < 1 THEN 1 ELSE 2

\* A call past the step of the last declared responder is answered by it.
C16_Witness ==
    /\ last_eval # None
    /\ LastEval.matched
    /\ Len(ServingPattern.responders) = 2
    /\ LastEval.responder = 2
    /\ ServingPattern.responders[2].response_index > 0
    /\ LastEval.pat_ordinal > ServingPattern.responders[2].response_index

\* ------------------------------------------------------------------- C17
LastAssemble == Unwrap(last_assemble)

\* The last clause was for a function registered in the other match mode
OtherModeRegistered ==
    /\ last_assemble # None
    /\ LastAssemble.clause.name \in DOMAIN LastAssemble.impls_before
    /\ LastAssemble.impls_before[LastAssemble.clause.name].pattern_match_mode
         # LastAssemble.clause.pattern_match_mode

SequenceClauseAssembled ==
    /\ last_assemble # None
    /\ LastAssemble.clause.pattern_match_mode = "InOrder"
    /\ ~OtherModeRegistered

\* C18: a sequence-match clause is assembled only if the counter of its
\* pattern is Exact: then the pattern gets the range that starts at the
\* cursor and is as long as the exact count.  Otherwise assemble_into
\* returns MockHasNoExactExpectation, no range is assigned and nothing is
\* registered.  Every sequence-match pattern of the registry is Exact.
C18_SequenceMatchNeedsExact ==
    /\ SequenceClauseAssembled =>
          LET a == LastAssemble
              counter == a.clause.patterns[1].call_counter IN
          IF counter.exactness = "Exact"
          THEN /\ a.ok
               /\ LET ps == impls[a.clause.name].patterns IN
                  ps[Len(ps)].call_index_range =
                      [start |-> a.cursor_before,
                       end |-> a.cursor_before + counter.minimum]
          ELSE /\ ~a.ok
               /\ a.error = Some(MockHasNoExactExpectation(a.clause.name))
               /\ impls = a.impls_before
               /\ current_call_index = a.cursor_before
    /\ \A name \in DOMAIN impls :
          impls[name].pattern_match_mode = "InOrder" =>
              \A i \in DOMAIN impls[name].patterns :
                  impls[name].patterns[i].call_counter.exactness = "Exact"

\* A sequence-match clause with a counter that is not Exact was handed to a
\* registry that holds ordered patterns already, and was refused.
C18_Witness ==
    /\ SequenceClauseAssembled
    /\ LastAssemble.clause.patterns[1].call_counter.exactness # "Exact"
    /\ ~LastAssemble.ok
    /\ current_call_index > 0

\* ------------------------------------------------------------------- C19
\* A call has just ended
CallEnded == last_op.op = "call_end"
EndedCall == Unwrap(last_op.call)

\* The call that has just ended was to a function without a registry entry
UnregisteredCallEnded == CallEnded /\ EndedCall.name \notin DOMAIN impls

\* C19 as stated: a call to an unregistered function fails with Unmockable
\* naming the function on a handle built by mock, and returns the
\* not-evaluated signal with the inputs on a handle built by spy.
C19_FallbackFailsOrHandsBack ==
    UnregisteredCallEnded =>
        IF fallback_mode = "Error"
        THEN /\ EndedCall.prepared = Some(MockError("Unmockable", EndedCall.name, None))
             /\ last_op.raised # None
        ELSE /\ EndedCall.returned = Some(No(EndedCall.input))
             /\ last_op.raised = None

\* C19, amended: on a handle built by mock both entry points fail, with the
\* Unmockable error naming the function; on a handle built by spy
\* conditional_eval returns the not-evaluated signal with the inputs, and
\* eval fails with the CannotUnmock error naming the function.
C19_FallbackByEntryPoint ==
    UnregisteredCallEnded =>
        IF fallback_mode = "Error"
        THEN /\ EndedCall.result = Err(MockError("Unmockable", EndedCall.name, None))
             /\ EndedCall.prepared = Some(MockError("Unmockable", EndedCall.name, None))
             /\ EndedCall.returned = None
             /\ last_op.raised # None
        ELSE /\ EndedCall.result = No(EndedCall.input)
             /\ IF EndedCall.entry = "conditional_eval"
                THEN /\ EndedCall.returned = Some(No(EndedCall.input))
                     /\ EndedCall.prepared = None
                     /\ last_op.raised = None
                ELSE /\ EndedCall.returned = None
                     /\ EndedCall.prepared =
                          Some(MockError("CannotUnmock", EndedCall.name, None))
                     /\ last_op.raised # None

\* conditional_eval of an unregistered function has just handed the inputs
\* back on a handle built by spy.
C19_Witness ==
    /\ UnregisteredCallEnded
    /\ fallback_mode = "Unmock"
    /\ EndedCall.entry = "conditional_eval"
    /\ EndedCall.returned = Some(No(EndedCall.input))

\* ------------------------------------------------------------------- C20
\* C20: whatever the interleaving of the calls of the threads, the N
\* increments made for the calls that a pattern served returned the
\* ordinals 0, 1, .., N-1, each once, and the counter stands at N.
C20_IncrementsAtomic ==
    \A name \in DOMAIN impls :
        \A i \in DOMAIN impls[name].patterns :
            LET ordinals == IF <<name, i>> \in DOMAIN served
                            THEN served[<<name, i>>] ELSE <<>>
                N == Len(ordinals) IN
            /\ Range(ordinals) = 0..(N - 1)
            /\ \A a, b \in 1..N : ordinals[a] = ordinals[b] => a = b
            /\ impls[name].patterns[i].call_counter.actual = N

\* Two threads are in a call at once, both served by the same pattern: the
\* two increments returned different ordinals.
C20_Witness ==
    /\ \A t \in Threads : pending[t] # None /\ Unwrap(pending[t]).pat_ordinal # None
    /\ Unwrap(pending["main"]).name = Unwrap(pending["w1"]).name
    /\ Unwrap(pending["main"]).index = Unwrap(pending["w1"]).index
    /\ Unwrap(pending["main"]).pat_ordinal # Unwrap(pending["w1"]).pat_ordinal

\* ------------------------------------------------------------------- C22
\* The call in progress on the thread that made the last step
StepCall == Unwrap(pending[last_op.thread])

\* Some call to the function was served, through whatever handle
Applied(name) == \E i \in DOMAIN impls[name].patterns : ServedBy(name, i) > 0

AssembledRegistry == AssembleAll(declared, MockAssemblerNew).impls

\* The registry with every invocation counter set back to 0
CountersReset(registry) ==
    [name \in DOMAIN registry |->
        [registry[name] EXCEPT !.patterns =
            [i \in DOMAIN @ |-> [@[i] EXCEPT !.call_counter.actual = 0]]]]

\* The same with every ever-applied flag cleared as well
CountersAndFlagsReset(registry) ==
    [name \in DOMAIN registry |->
        [CountersReset(registry)[name] EXCEPT !.has_applications = FALSE]]

\* C23 as stated: an evaluation changes nothing in the registry but the
\* invocation counter of the pattern it selected; after any sequence of
\* calls the registry is, but for the counters, as it was assembled.
C23_OnlyCounterChanges ==
    /\ CountersReset(impls) = CountersReset(AssembledRegistry)
    /\ last_eval # None =>
          LET c == LastEval IN
          impls = IF c.matched
                  THEN [c.impls_before EXCEPT
                          ![c.name].patterns[c.index].call_counter.actual = @ + 1]
                  ELSE c.impls_before

\* C23 amended: an evaluation that selects a pattern adds one to that
\* pattern's invocation counter and sets the ever-applied flag of the
\* function; an evaluation that selects none changes nothing.  The set of
\* functions, the match modes, the pattern lists and their order, the
\* matchers, the responders, the minimum and exactness of every counter and
\* the call-index ranges stay as they were assembled.
C23_OnlyCounterAndFlagChange ==
    /\ CountersAndFlagsReset(impls) = AssembledRegistry
    /\ last_eval # None =>
          LET c == LastEval IN
          impls = IF c.matched
                  THEN [c.impls_before EXCEPT
                          ![c.name].patterns[c.index].call_counter.actual = @ + 1,
                          ![c.name].has_applications = TRUE]
                  ELSE c.impls_before

\* Two functions are registered, one of them with two patterns; after calls
\* that moved a counter the third call is served.
C23_Witness ==
    /\ last_eval # None /\ LastEval.matched
    /\ n_calls = 3
    /\ DOMAIN impls = Fns
    /\ \E name \in Fns : Len(impls[name].patterns) = 2
    /\ LastEval.impls_before # AssembledRegistry
    /\ impls # LastEval.impls_before

\* ------------------------------------------------------------------- C24
\* C24 as stated: no add_to_minimum of a builder chain lowers the minimum,
\* and a merge with AtLeast or AtLeastPlusOne leaves a counter that was
\* Exact an Exact one.
C24_FloorRisesExactKept ==
    \A k \in DOMAIN quantified :
        LET m == quantified[k] IN
        /\ m.after.minimum >= m.before.minimum
        /\ (m.before.exactness = "Exact" /\ m.exactness \in {"AtLeast", "AtLeastPlusOne"})
              => m.after.exactness = "Exact"

\* C24 amended: every add_to_minimum of a builder chain adds its count to
\* the minimum, so the minimum never decreases; the counter takes the
\* exactness of the quantifier: Exact from once and n_times, AtLeast from
\* at_least_times, AtLeastPlusOne from then.  at_least_times never meets an
\* Exact counter; then meets only Exact counters and leaves them
\* AtLeastPlusOne until the next quantifier.
C24_FloorRisesExactnessFollows ==
    \A k \in DOMAIN quantified :
        LET m == quantified[k] IN
        /\ m.before = IF k = 1 THEN CallCounterNew(0, "AtLeast")
                               ELSE quantified[k - 1].after
        /\ m.after.minimum = m.before.minimum + m.n
        /\ m.after.minimum >= m.before.minimum
        /\ m.after.exactness = m.exactness
        /\ m.exactness = CASE m.method \in {"once", "n_times"} -> "Exact"
                           [] m.method = "at_least_times" -> "AtLeast"
                           [] OTHER -> "AtLeastPlusOne"
        /\ m.method = "at_least_times" => m.before.exactness # "Exact"
        /\ m.method = "then" =>
              m.before.exactness = "Exact" /\ m.after.exactness = "AtLeastPlusOne"

\* n_times(n).then() .. at_least_times(k): an exact quantifier, then, and a
\* quantifier that raises the minimum again
C24_Witness ==
    /\ Len(quantified) = 3
    /\ quantified[1].method = "n_times" /\ quantified[1].n = MaxCount
    /\ quantified[2].method = "then"
    /\ quantified[3].method = "at_least_times"
    /\ quantified[3].after.minimum > quantified[1].after.minimum
    /\ quantified[3].after.exactness = "AtLeast"

\* ------------------------------------------------------------------- C25
\* The k-th add_to_minimum of the chain merged an Exact quantification
ExactMerge(k) == quantified[k].exactness = "Exact"

\* The exact values that the counter carried before the k-th add_to_minimum
CarriedExact(k) ==
    {quantified[j].after.minimum :
        j \in {i \in 1..(k - 1) : quantified[i].after.exactness = "Exact"}}

\* The k-th add_to_minimum went through: its count is in the minimum, the
\* counter has its exactness and the chain has gone on (a build-time error
\* would have ended it there)
Accepted(k) ==
    /\ quantified[k].after.exactness = quantified[k].exactness
    /\ quantified[k].after.minimum = quantified[k].before.minimum + quantified[k].n
    /\ (k = Len(quantified) /\ chain # None)
          => Chain.q.pattern.call_counter = quantified[k].after

SelectedResponder ==
    impls[EndedCall.name].patterns[EndedCall.index]
        .responders[EndedCall.responder].responder

\* The call that has ended selected a delegate (unmock) responder
DelegateSelected == CallEnded /\ EndedCall.matched /\ SelectedResponder = "Unmock"

\* C26: when the responder selected for a call is of the delegate kind,
\* conditional_eval returns the not-evaluated signal with the inputs of the
\* call: it raises nothing, hands nothing to prepare_panic and leaves the
\* mailbox as it was, although the function has patterns and the call was
\* counted by one of them.
C26_DelegateHandsInputsBack ==
    (DelegateSelected /\ EndedCall.entry = "conditional_eval") =>
        /\ EndedCall.returned = Some(No(EndedCall.input))
        /\ last_op.raised = None
        /\ EndedCall.prepared = None
        /\ panic_reason = last_op.mailbox_before
        /\ ServedBy(EndedCall.name, EndedCall.index) >= 1
        /\ impls[EndedCall.name].has_applications

\* conditional_eval through a clone on the worker has handed the inputs back
\* for a function with a delegate pattern, after another call had failed.
C26_Witness ==
    /\ DelegateSelected /\ EndedCall.entry = "conditional_eval"
    /\ EndedCall.returned = Some(No(EndedCall.input))
    /\ last_op.thread = "w1" /\ ~last_op.original
    /\ last_op.mailbox_before # None

\* ------------------------------------------------------------------- C27
\* The verification reported that the function was never called
NeverCalledReported(name) ==
    MockError("MockNeverCalled", name, None) \in Range(last_op.errors)

\* The ever-applied flag is set exactly for the functions with a served call,
\* and a verification reports exactly the functions whose flag is not set
FlagTellsApplied ==
    /\ \A name \in DOMAIN impls : impls[name].has_applications <=> Applied(name)
    /\ (IsDrop /\ last_op.counters_checked) =>
          \A name \in Fns :
              NeverCalledReported(name)
                 <=> (name \in DOMAIN impls /\ ~impls[name].has_applications)

\* No step resets a flag that is set
FlagKept ==
    \A name \in DOMAIN impls :
        impls[name].has_applications
           => (name \in DOMAIN impls' /\ impls'[name].has_applications)

\* C27: the verification at teardown reports a registered function as never
\* called if and only if no evaluation of it was ever served by a pattern;
\* the ever-applied flag is false after assembly, is set by the first
\* evaluation that a pattern serves and is never reset.
C27_NeverCalledIffNeverServed == []FlagTellsApplied /\ [][FlagKept]_vars

\* A verification met one function that was called and one, registered as
\* well, that never was: only the second is reported as never called.
C27_Witness ==
    /\ IsDrop /\ last_op.counters_checked
    /\ \E called, idle \in DOMAIN impls :
          /\ Applied(called) /\ ~NeverCalledReported(called)
          /\ ~Applied(idle) /\ NeverCalledReported(idle)

\* ------------------------------------------------------------------- C28
\* C28: the lock of the mailbox is released before a failure is raised, by
\* a failing call as by the drop that replays a latched failure: the lock is
\* never poisoned, and no call and no drop raises the failure of the lock
\* instead of its own.
C28_LockReleasedBeforeRaise ==
    /\ ~poisoned
    /\ last_op.raised # Some(PoisonMessage)
    /\ \A k \in DOMAIN attempts : attempts[k].raised # PoisonMessage

\* ------------------------------------------------------------------- C29
\* The patterns of the clauses assembled for the function, in clause order
ClausePatterns(name) ==
    FlattenSeq([k \in 1..Len(declared) |->
                  IF declared[k].name = name THEN declared[k].patterns ELSE <<>>])

\* A pattern of the registry as its clause declared it: without the
\* call-index range it got in assembly and with no call counted
AsDeclared(pattern) ==
    [pattern EXCEPT !.call_index_range = DefaultRange, !.call_counter.actual = 0]

\* C29: the pattern list of a registry entry is the concatenation of the
\* pattern lists of the clauses assembled for the function, in clause order,
\* and a call served by one pattern adds one to the counter of that pattern
\* and leaves the counter of every other pattern as it was.
C29_PatternsConcatenated ==
    /\ \A name \in Fns :
          IF name \in DOMAIN impls
          THEN [i \in DOMAIN impls[name].patterns |->
                   AsDeclared(impls[name].patterns[i])] = ClausePatterns(name)
          ELSE ClausePatterns(name) = <<>>
    /\ (last_eval # None /\ LastEval.matched) =>
          \A name \in DOMAIN impls : \A i \in DOMAIN impls[name].patterns :
              impls[name].patterns[i].call_counter.actual
                = LastEval.impls_before[name].patterns[i].call_counter.actual
                  + (IF name = LastEval.name /\ i = LastEval.index THEN 1 ELSE 0)

\* Two unordered clauses were assembled for one function; a call was served
\* by the pattern of the first clause and the last call by the pattern of
\* the second.
C29_Witness ==
    /\ last_eval # None /\ LastEval.matched
    /\ Len(declared) = 2
    /\ declared[1].name = LastEval.name /\ declared[2].name = LastEval.name
    /\ declared[1] # declared[2]
    /\ declared[1].pattern_match_mode = "InAnyOrder"
    /\ LastEval.index > Len(declared[1].patterns)
    /\ ServedBy(LastEval.name, 1) >= 1

\* ------------------------------------------------------------------- C30
\* The drop of the original has replayed the latched failure
Replayed ==
    /\ Released
    /\ ~Release.unwinding
    /\ Release.failures_before >= 1
    /\ Release.raised = Some(ErrorToString(attempts[1].error))

\* C30: a latched failure is replayed at most once.  The drop that replays
\* it takes it out of the mailbox, which is empty right after; at most one
\* drop ever reads the mailbox; and once the failure was replayed no later
\* drop raises anything, and the replayed failure is never in the mailbox
\* again.
C30_ReplayedOnce ==
    /\ verify_count <= 1
    /\ (OriginalDrop /\ last_op.locked /\ last_op.mailbox_before # None) =>
          /\ last_op.raised = Some(ErrorToString(Unwrap(last_op.mailbox_before)))
          /\ panic_reason = None
    /\ Replayed =>
          /\ panic_reason = None
          /\ (IsDrop /\ ~last_op.original) =>
                /\ last_op.raised = None
                /\ ~last_op.locked

\* After the replay a call through a clone failed again, and the clone is
\* dropped: nothing is raised by that drop and the mailbox is empty.
C30_Witness ==
    /\ Replayed
    /\ IsDrop /\ ~last_op.original
    /\ Len(attempts) > Release.failures_before
    /\ panic_reason = None

\* ------------------------------------------------------------------- C31
\* The last assemble_into returned Err
AssembleFailed == last_assemble # None /\ ~LastAssemble.ok

\* C31: an assemble_into that fails, with IncompatiblePatternMatchMode or
\* with MockHasNoExactExpectation, leaves the assembler as it was: the same
\* functions are registered, every entry has the patterns and the call-index
\* ranges it had, and the call-index cursor has not moved.  It fails with
\* one of these two errors and with no other.  (Assembly is the state right
\* after the call: no call has been evaluated on the registry yet.)
C31_FailedAssembleChangesNothing ==
    AssembleFailed =>
        /\ LastAssemble.error # None
        /\ Unwrap(LastAssemble.error).kind \in
             {"IncompatiblePatternMatchMode", "MockHasNoExactExpectation"}
        /\ DOMAIN impls = DOMAIN LastAssemble.impls_before
        /\ \A name \in DOMAIN impls :
              /\ impls[name].pattern_match_mode =
                   LastAssemble.impls_before[name].pattern_match_mode
              /\ impls[name].patterns = LastAssemble.impls_before[name].patterns
        /\ current_call_index = LastAssemble.cursor_before

\* A sequence-match clause without an exact count is refused for a function
\* that is registered, after the cursor has moved, and with it both kinds of
\* failure have happened during the same construction.
C31_Witness ==
    /\ AssembleFailed
    /\ Unwrap(LastAssemble.error).kind = "MockHasNoExactExpectation"
    /\ LastAssemble.clause.name \in DOMAIN LastAssemble.impls_before
    /\ LastAssemble.cursor_before > 0
    /\ assemble_error # None
    /\ Unwrap(assemble_error).kind = "IncompatiblePatternMatchMode"

\* ------------------------------------------------------------------- C32
\* eval has just ended a call for which mock::eval yielded the not-evaluated
\* signal: the function has no entry and the fallback is the delegate one,
\* or the responder selected was a delegate
EvalNotEvaluated ==
    /\ CallEnded
    /\ EndedCall.entry = "eval"
    /\ EndedCall.result.tag = "No"

\* C32: eval never hands inputs back.  Whenever mock::eval yields the
\* not-evaluated signal, eval returns nothing and raises the text of the
\* CannotUnmock error naming the function; that error is in the mailbox
\* afterwards if the mailbox was empty, and an occupied mailbox is kept.
C32_EvalRaisesCannotUnmock ==
    EvalNotEvaluated =>
        /\ EndedCall.returned = None
        /\ last_op.raised =
             Some(ErrorToString(MockError("CannotUnmock", EndedCall.name, None)))
        /\ panic_reason =
             IF last_op.mailbox_before = None
             THEN Some(MockError("CannotUnmock", EndedCall.name, None))
             ELSE last_op.mailbox_before
====
